---- MODULE Spec2Model ----
(***************************************************************************)
(* Model of pymeasure.instruments.anaheimautomation.MotorController: the   *)
(* driver of the Anaheim Automation stepper motor controllers.             *)
(*                                                                         *)
(* Text is modelled as a sequence of one-character strings, so that the    *)
(* formatting of a command ("@" + idn + command + terminator, "B%i") is    *)
(* computed character by character.  The adapter is modelled by the list   *)
(* of the messages it has been handed; a message that the adapter fails    *)
(* to send is in the list too (it was attempted).                          *)
(***************************************************************************)
EXTENDS Integers, Sequences, FiniteSets, TLC

VARIABLES idn, write_termination, adapter, ctor, result

vars == <<idn, write_termination, adapter, ctor, result>>

(* ---------------------------- bounds ----------------------------------- *)

\* An operation starts only while the adapter has seen fewer messages.
MaxLog == 2

(* ----------------------------- text ------------------------------------ *)

CR == <<"\r">>
CRLF == <<"\r", "\n">>
CW == <<"C", "W">>
CCW == <<"C", "C", "W">>

Digits == <<"0", "1", "2", "3", "4", "5", "6", "7", "8", "9">>

RECURSIVE Natural(_)
Natural(n) == IF n < 10 THEN <<Digits[n + 1]>>
              ELSE Natural(n \div 10) \o <<Digits[(n % 10) + 1]>>

\* The decimal text of an integer: "%i" % n and "{}".format(n).
Decimal(n) == IF n < 0 THEN <<"-">> \o Natural(0 - n) ELSE Natural(n)

(* ---------------------- values returned to the caller ------------------ *)

None == [type |-> "None", int |-> 0, str |-> <<>>]
IntVal(n) == [type |-> "int", int |-> n, str |-> <<>>]
StrVal(s) == [type |-> "str", int |-> 0, str |-> s]
ListVal(n) == [type |-> "list", int |-> n, str |-> <<>>]

\* The outcome of the statements of an operation executed so far: the
\* adapter calls made, the exception raised ("none" when none is pending)
\* and the value returned.
Start == [calls |-> <<>>, err |-> "none", ret |-> None]

(* ----------------------------- adapter --------------------------------- *)

\* The failAt-th adapter call of an operation raises (0: none does).
adapter_call(o, via, msg, failAt, ret) ==
    LET calls == Append(o.calls, [via |-> via, msg |-> msg])
    IN IF Len(calls) = failAt
       THEN [calls |-> calls, err |-> "AdapterError", ret |-> None]
       ELSE [calls |-> calls, err |-> "none", ret |-> ret]

(* ------------------------ MotorController ------------------------------ *)

init(idn_arg, given, write_termination_arg) ==
    [idn |-> idn_arg,
     write_termination |-> IF given THEN write_termination_arg ELSE CR]

\* write without the terminator.
write_unterminated(command, o, failAt) ==
    IF o.err # "none" THEN o
    ELSE adapter_call(o, "write", <<"@">> \o Decimal(idn) \o command,
                      failAt, None)

write(command, o, failAt) ==
    IF o.err # "none" THEN o
    ELSE adapter_call(o, "write",
                      <<"@">> \o Decimal(idn) \o command \o write_termination,
                      failAt, None)

\* values answering a repeated query from the previous reply.
values_cached(command, o, reply, failAt) ==
    LET msg == <<"@">> \o Decimal(idn) \o command \o write_termination
    IN IF o.err # "none" THEN o
       ELSE IF /\ result.op \in {"get", "values"}
               /\ result.err = "none"
               /\ result.calls[1].msg = msg
       THEN [o EXCEPT !.ret = ListVal(result.reply)]
       ELSE adapter_call(o, "values", msg, failAt, ListVal(reply))

values(command, o, reply, failAt) ==
    IF o.err # "none" THEN o
    ELSE adapter_call(o, "values",
                      <<"@">> \o Decimal(idn) \o command \o write_termination,
                      failAt, ListVal(reply))

ask(command, o, reply, failAt) ==
    IF o.err # "none" THEN o
    ELSE adapter_call(o, "ask",
                      <<"@">> \o Decimal(idn) \o command \o write_termination,
                      failAt, StrVal(Decimal(reply)))


(* ------------------------ property declarations ------------------------ *)

\* Instrument.control(get_command, set_command, docs, validator, values,
\* map_values, get_process).  set_command is the text before the
\* conversion and conv the conversion ("i" for %i, "s" for %s).

basespeed ==
    [get_command |-> <<"V", "B">>, set_command |-> <<"B">>, conv |-> "i",
     validator |-> "truncated_range", values |-> <<1, 5000>>,
     map_values |-> FALSE, get_process |-> "identity"]

maxspeed ==
    [get_command |-> <<"V", "M">>, set_command |-> <<"M">>, conv |-> "i",
     validator |-> "truncated_range", values |-> <<1, 50000>>,
     map_values |-> FALSE, get_process |-> "identity"]

\* direction without the mapping of the names to the symbols.
direction_unmapped ==
    [get_command |-> <<"V", "+">>, set_command |-> <<>>, conv |-> "s",
     validator |-> "strict_discrete_set",
     values |-> [k \in {CW, CCW} |-> IF k = CW THEN <<"+">> ELSE <<"-">>],
     map_values |-> FALSE, get_process |-> "lambda"]

\* direction accepting the symbols as well as the names.
direction_symbols ==
    [get_command |-> <<"V", "+">>, set_command |-> <<>>, conv |-> "s",
     validator |-> "strict_discrete_set",
     values |-> [k \in {CW, CCW, <<"+">>, <<"-">>} |->
                   IF k \in {CW, <<"+">>} THEN <<"+">> ELSE <<"-">>],
     map_values |-> TRUE, get_process |-> "lambda"]

direction ==
    [get_command |-> <<"V", "+">>, set_command |-> <<>>, conv |-> "s",
     validator |-> "strict_discrete_set",
     values |-> [k \in {CW, CCW} |-> IF k = CW THEN <<"+">> ELSE <<"-">>],
     map_values |-> TRUE, get_process |-> "lambda"]

\* steps with a lower bound of 1.
steps_from_one ==
    [get_command |-> <<"V", "N">>, set_command |-> <<"N">>, conv |-> "i",
     validator |-> "truncated_range", values |-> <<1, 8388607>>,
     map_values |-> FALSE, get_process |-> "identity"]

steps ==
    [get_command |-> <<"V", "N">>, set_command |-> <<"N">>, conv |-> "i",
     validator |-> "truncated_range", values |-> <<0, 8388607>>,
     map_values |-> FALSE, get_process |-> "identity"]

position ==
    [get_command |-> <<"V", "Z">>, set_command |-> <<"Z">>, conv |-> "i",
     validator |-> "truncated_range", values |-> <<-8388607, 8388607>>,
     map_values |-> FALSE, get_process |-> "identity"]

\* Instrument.measurement(get_command, docs): a control without a setter.
error_reg ==
    [get_command |-> <<"!">>, set_command |-> <<>>, conv |-> "none",
     validator |-> "none", values |-> <<>>,
     map_values |-> FALSE, get_process |-> "identity"]

\* get_process comparing with 0.
get_process_zero(d) == IF d = 0 THEN <<"+">> ELSE <<"-">>

\* direction's get_process: lambda d: "+" if d == 1.0 else "-"
get_process(d) == IF d = 1 THEN <<"+">> ELSE <<"-">>

Property(name) ==
    CASE name = "basespeed" -> basespeed
      [] name = "maxspeed" -> maxspeed
      [] name = "direction" -> direction
      [] name = "steps" -> steps
      [] name = "position" -> position
      [] name = "error_reg" -> error_reg

(* ----------------------------- validators ------------------------------ *)

truncated_range(value, range) ==
    IF range[1] <= value /\ value <= range[2] THEN value
    ELSE IF value > range[2] THEN range[2]
    ELSE range[1]

\* strict_discrete_set returns the value when it is one of the keys and
\* raises ValueError otherwise.
strict_discrete_set_raises(value, map) == value \notin DOMAIN map

(* ------------------- the accessors of a property ----------------------- *)

\* fset of Instrument.control: validate, map, format, write.
fset(prop, value, o, failAt) ==
    IF o.err # "none" THEN o
    ELSE IF prop.validator = "strict_discrete_set"
            /\ strict_discrete_set_raises(value, prop.values)
    THEN [o EXCEPT !.err = "ValueError"]
    ELSE LET valid == IF prop.validator = "truncated_range"
                      THEN truncated_range(value, prop.values)
                      ELSE value
             mapped == IF prop.map_values THEN prop.values[valid] ELSE valid
             text == IF prop.conv = "i" THEN Decimal(mapped) ELSE mapped
         IN write(prop.set_command \o text, o, failAt)

\* fget of Instrument.control: query through values(), process the single
\* value of the reply, map it back to its name.
fget(prop, o, reply, failAt) ==
    IF o.err # "none" THEN o
    ELSE LET q == values(prop.get_command, o, reply, failAt)
         IN IF q.err # "none" THEN q
            ELSE IF prop.get_process = "lambda"
            THEN LET value == get_process(q.ret.int)
                     names == {k \in DOMAIN prop.values : prop.values[k] = value}
                 IN IF ~prop.map_values THEN [q EXCEPT !.ret = StrVal(value)]
                    ELSE IF names = {} THEN [q EXCEPT !.err = "KeyError", !.ret = None]
                    ELSE [q EXCEPT !.ret = StrVal(CHOOSE k \in names : TRUE)]
            ELSE [q EXCEPT !.ret = IntVal(q.ret.int)]

(* ------------------------- motion commands ----------------------------- *)

stop(o, failAt) == write(<<".">>, o, failAt)

\* go sending "S".
go_slew(o, failAt) == write(<<"S">>, o, failAt)

go(o, failAt) == write(<<"G">>, o, failAt)

\* step sending "G" before the direction.
step_go_first(steps_arg, direction_arg, o, failAt) ==
    LET s1 == fset(steps, steps_arg, o, failAt)
        s2 == write(<<"G">>, s1, failAt)
    IN fset(direction, direction_arg, s2, failAt)

\* step sending "G" whatever became of the settings.
step_swallow(steps_arg, direction_arg, o, failAt) ==
    LET s1 == fset(steps, steps_arg, o, failAt)
        s2 == fset(direction, direction_arg, s1, failAt)
    IN write(<<"G">>, [s2 EXCEPT !.err = "none"], failAt)

\* step setting the direction before the steps.
step_direction_first(steps_arg, direction_arg, o, failAt) ==
    LET s1 == fset(direction, direction_arg, o, failAt)
        s2 == fset(steps, steps_arg, s1, failAt)
    IN write(<<"G">>, s2, failAt)

step(steps_arg, direction_arg, o, failAt) ==
    LET s1 == fset(steps, steps_arg, o, failAt)
        s2 == fset(direction, direction_arg, s1, failAt)
    IN write(<<"G">>, s2, failAt)

slew(direction_arg, o, failAt) ==
    LET s1 == fset(direction, direction_arg, o, failAt)
    IN write(<<"S">>, s1, failAt)

(* --------------------------- inputs ------------------------------------ *)

Idns == {1, 12}

Terminations == {CRLF}

Properties ==
    {"basespeed", "maxspeed", "direction", "steps", "position", "error_reg"}

Numeric == {"basespeed", "maxspeed", "steps", "position"}

\* Below, at and above the bounds of each property, and a value inside.
WriteInputs(name) ==
    CASE name = "basespeed" -> {-7, 0, 1, 42, 5000, 5001}
      [] name = "maxspeed" -> {0, 1, 42, 50000, 50001}
      [] name = "steps" -> {-1, 0, 42, 8388607, 8388608}
      [] name = "position" -> {-8388608, -8388607, -42, 0, 8388607, 8388608}

StepInputs == {-1, 42, 8388608}

Directions == {CW, CCW, <<"+">>, <<"c", "w">>}

Commands == {<<"G">>, <<"V", "Z">>}

Replies == {0, 1, 2}

(* ----------------------------- state ----------------------------------- *)

\* result: the last operation, its arguments, the behaviour of the adapter
\* during it (failAt, reply) and its outcome.
Idle ==
    [op |-> "init", prop |-> "", value |-> 0, direction |-> <<>>,
     command |-> <<>>, reply |-> 0, failAt |-> 0,
     calls |-> <<>>, err |-> "none", ret |-> None]

Done(op, o, failAt) ==
    [Idle EXCEPT !.op = op, !.failAt = failAt,
                 !.calls = o.calls, !.err = o.err, !.ret = o.ret]

Init ==
    \E idn_arg \in Idns, given \in BOOLEAN, wt \in Terminations :
        LET self == init(idn_arg, given, wt)
        IN /\ idn = self.idn
           /\ write_termination = self.write_termination
           /\ adapter = <<>>
           /\ ctor = [idn |-> idn_arg, given |-> given,
                      write_termination |-> IF given THEN wt ELSE <<>>]
           /\ result = Idle

Finish(r) ==
    /\ adapter' = adapter \o r.calls
    /\ result' = r
    /\ UNCHANGED <<idn, write_termination, ctor>>

\* The reply matters only when the adapter call that reads it succeeds.
RepliesWhen(failAt) == IF failAt = 1 THEN {0} ELSE Replies

Get ==
    /\ Len(adapter) < MaxLog
    /\ \E name \in Properties, failAt \in 0..1 :
         \E reply \in RepliesWhen(failAt) :
           Finish([Done("get", fget(Property(name), Start, reply, failAt), failAt)
                   EXCEPT !.prop = name, !.reply = reply])

Set ==
    /\ Len(adapter) < MaxLog
    /\ \E name \in Numeric, failAt \in 0..1 :
         \E value \in WriteInputs(name) :
           Finish([Done("set", fset(Property(name), value, Start, failAt), failAt)
                   EXCEPT !.prop = name, !.value = value])

SetDirection ==
    /\ Len(adapter) < MaxLog
    /\ \E d \in Directions, failAt \in 0..1 :
         Finish([Done("set", fset(direction, d, Start, failAt), failAt)
                 EXCEPT !.prop = "direction", !.direction = d])

Stop ==
    /\ Len(adapter) < MaxLog
    /\ \E failAt \in 0..1 : Finish(Done("stop", stop(Start, failAt), failAt))

Go ==
    /\ Len(adapter) < MaxLog
    /\ \E failAt \in 0..1 : Finish(Done("go", go(Start, failAt), failAt))

Step ==
    /\ Len(adapter) < MaxLog
    /\ \E n \in StepInputs, d \in Directions, failAt \in 0..3 :
         Finish([Done("step", step(n, d, Start, failAt), failAt)
                 EXCEPT !.value = n, !.direction = d])

Slew ==
    /\ Len(adapter) < MaxLog
    /\ \E d \in Directions, failAt \in 0..2 :
         Finish([Done("slew", slew(d, Start, failAt), failAt)
                 EXCEPT !.direction = d])

Write ==
    /\ Len(adapter) < MaxLog
    /\ \E c \in Commands, failAt \in 0..1 :
         Finish([Done("write", write(c, Start, failAt), failAt)
                 EXCEPT !.command = c])

Values ==
    /\ Len(adapter) < MaxLog
    /\ \E c \in Commands, failAt \in 0..1 :
         \E reply \in RepliesWhen(failAt) :
           Finish([Done("values", values(c, Start, reply, failAt), failAt)
                   EXCEPT !.command = c, !.reply = reply])

Ask ==
    /\ Len(adapter) < MaxLog
    /\ \E c \in Commands, failAt \in 0..1 :
         \E reply \in RepliesWhen(failAt) :
           Finish([Done("ask", ask(c, Start, reply, failAt), failAt)
                   EXCEPT !.command = c, !.reply = reply])

Next ==
    \/ Get
    \/ Set
    \/ SetDirection
    \/ Stop
    \/ Go
    \/ Step
    \/ Slew
    \/ Write
    \/ Values
    \/ Ask

Spec == Init /\ [][Next]_vars

(* ===================== reading a message back ========================== *)

\* The text of the address and the terminator in force, from the arguments
\* of the constructor.
IdnText == IF ctor.idn = 1 THEN <<"1">> ELSE <<"1", "2">>

Terminator == IF ctor.given THEN ctor.write_termination ELSE <<"\r">>

Frame(body) == <<"@">> \o IdnText \o body \o Terminator

Framed(msg) ==
    LET pre == <<"@">> \o IdnText
    IN /\ Len(msg) >= Len(pre) + Len(Terminator)
       /\ SubSeq(msg, 1, Len(pre)) = pre
       /\ SubSeq(msg, Len(msg) - Len(Terminator) + 1, Len(msg)) = Terminator

Body(msg) == SubSeq(msg, Len(IdnText) + 2, Len(msg) - Len(Terminator))

IsDigit(c) == \E d \in 1..10 : Digits[d] = c

DigitValue(c) == (CHOOSE d \in 1..10 : Digits[d] = c) - 1

IsNatural(text) == Len(text) > 0 /\ \A i \in 1..Len(text) : IsDigit(text[i])

IsNumber(text) ==
    /\ Len(text) > 0
    /\ IF text[1] = "-" THEN IsNatural(Tail(text)) ELSE IsNatural(text)

RECURSIVE NaturalOf(_)
NaturalOf(text) ==
    IF Len(text) = 0 THEN 0
    ELSE 10 * NaturalOf(SubSeq(text, 1, Len(text) - 1)) + DigitValue(text[Len(text)])

NumberOf(text) == IF text[1] = "-" THEN 0 - NaturalOf(Tail(text)) ELSE NaturalOf(text)

\* An expected adapter call: a fixed body, or a letter followed by a number.
Text(via, body) == [via |-> via, body |-> body, num |-> FALSE, n |-> 0]

Num(letter, n) == [via |-> "write", body |-> letter, num |-> TRUE, n |-> n]

Matches(call, e) ==
    /\ call.via = e.via
    /\ Framed(call.msg)
    /\ LET b == Body(call.msg)
           rest == SubSeq(b, Len(e.body) + 1, Len(b))
       IN IF e.num
          THEN /\ Len(b) > Len(e.body)
               /\ SubSeq(b, 1, Len(e.body)) = e.body
               /\ IsNumber(rest)
               /\ NumberOf(rest) = e.n
          ELSE b = e.body

MatchesAll(calls, es) ==
    /\ Len(calls) = Len(es)
    /\ \A i \in 1..Len(es) : Matches(calls[i], es[i])

Clamp(v, lo, hi) == IF v < lo THEN lo ELSE IF v > hi THEN hi ELSE v

Clamped(name, v) ==
    CASE name = "basespeed" -> Clamp(v, 1, 5000)
      [] name = "maxspeed" -> Clamp(v, 1, 50000)
      [] name = "steps" -> Clamp(v, 0, 8388607)
      [] name = "position" -> Clamp(v, -8388607, 8388607)

Letter(name) ==
    CASE name = "basespeed" -> <<"B">>
      [] name = "maxspeed" -> <<"M">>
      [] name = "steps" -> <<"N">>
      [] name = "position" -> <<"Z">>

Query(name) ==
    CASE name = "basespeed" -> <<"V", "B">>
      [] name = "maxspeed" -> <<"V", "M">>
      [] name = "direction" -> <<"V", "+">>
      [] name = "steps" -> <<"V", "N">>
      [] name = "position" -> <<"V", "Z">>
      [] name = "error_reg" -> <<"!">>

ValidDirection(d) == d = <<"C", "W">> \/ d = <<"C", "C", "W">>

Symbol(d) == IF d = <<"C", "W">> THEN <<"+">> ELSE <<"-">>

(* ============================ claims =================================== *)

\* C1: every message ever handed to the adapter is "@" + idn + command +
\* write_termination, with the idn and the terminator of the constructor
\* ("\r" when none was given); write, values and ask frame exactly the
\* command they were given.
C1_EveryMessageFramed ==
    /\ \A i \in 1..Len(adapter) : Framed(adapter[i].msg)
    /\ result.op \in {"write", "values", "ask"}
         => MatchesAll(result.calls, <<Text(result.op, result.command)>>)

C1_Witness ==
    /\ ~ctor.given
    /\ Len(adapter) >= 2
    /\ adapter[1].via = "write"
    /\ result.op = "ask"
    /\ result.err = "none"

\* C2: a write of an integer to basespeed, maxspeed, steps or position
\* raises no validation error and hands the adapter exactly one command,
\* the property's letter followed by the value clamped to its bounds.
C2_NumericWriteClamped ==
    (result.op = "set" /\ result.prop \in Numeric)
        => /\ result.err # "ValueError"
           /\ MatchesAll(result.calls,
                         <<Num(Letter(result.prop),
                               Clamped(result.prop, result.value))>>)

C2_Witness ==
    /\ result.op = "set"
    /\ result.prop = "steps"
    /\ result.value = -1
    /\ result.err = "none"
    /\ Len(adapter) >= 2

\* C3: writing direction "CW" sends exactly one command, "+", and writing
\* "CCW" exactly one command, "-"; the name is not what is sent.
C3_DirectionWriteSymbol ==
    (result.op = "set" /\ result.prop = "direction"
       /\ ValidDirection(result.direction))
        => /\ result.err # "ValueError"
           /\ MatchesAll(result.calls,
                         <<Text("write", Symbol(result.direction))>>)
           /\ Body(result.calls[1].msg) # result.direction

C3_Witness ==
    /\ result.op = "set"
    /\ result.prop = "direction"
    /\ result.direction = <<"C", "C", "W">>
    /\ result.err = "none"

\* C4: writing direction with anything but "CW" or "CCW" raises the
\* validation error, hands the adapter nothing and leaves the messages
\* sent so far as they were.
InvalidDirectionWrite ==
    /\ result.op = "set"
    /\ result.prop = "direction"
    /\ ~ValidDirection(result.direction)

C4_InvalidDirectionRejected ==
    [][InvalidDirectionWrite'
         => /\ result'.err = "ValueError"
            /\ result'.calls = <<>>
            /\ adapter' = adapter]_vars

C4_Witness ==
    /\ InvalidDirectionWrite
    /\ result.direction = <<"+">>
    /\ result.err = "ValueError"
    /\ Len(adapter) = 1

\* C5: reading direction sends exactly one "V+" query and, when the
\* adapter answers, returns "CW" for a reply of 1 and "CCW" for any other
\* number; it never fails on an unmapped value.
C5_DirectionRead ==
    (result.op = "get" /\ result.prop = "direction")
        => /\ MatchesAll(result.calls, <<Text("values", <<"V", "+">>)>>)
           /\ result.err # "KeyError"
           /\ result.failAt = 0
                => /\ result.err = "none"
                   /\ result.ret.type = "str"
                   /\ result.ret.str = IF result.reply = 1
                                       THEN <<"C", "W">>
                                       ELSE <<"C", "C", "W">>

C5_Witness ==
    /\ result.op = "get"
    /\ result.prop = "direction"
    /\ result.reply = 2
    /\ result.err = "none"
    /\ result.ret.str = <<"C", "C", "W">>

\* C6: a successful step hands the adapter exactly "N<clamped steps>",
\* the direction symbol and "G", in this order; a successful slew exactly
\* the direction symbol and "S", in this order.
C6_StepSlewOrder ==
    /\ (result.op = "step" /\ result.err = "none")
         => MatchesAll(result.calls,
                       <<Num(<<"N">>, Clamp(result.value, 0, 8388607)),
                         Text("write", Symbol(result.direction)),
                         Text("write", <<"G">>)>>)
    /\ (result.op = "slew" /\ result.err = "none")
         => MatchesAll(result.calls,
                       <<Text("write", Symbol(result.direction)),
                         Text("write", <<"S">>)>>)

C6_Witness ==
    /\ result.op = "step"
    /\ result.err = "none"
    /\ result.value = 8388608
    /\ result.direction = <<"C", "C", "W">>
    /\ Len(adapter) = 4

\* C7: every read issues exactly one query, the property's own, and
\* returns what that query's reply gives, whatever was written or read
\* before; every accepted write issues exactly one command and no query;
\* no operation changes idn or write_termination.
ReadValue(name, reply) ==
    IF name = "direction"
    THEN StrVal(IF reply = 1 THEN <<"C", "W">> ELSE <<"C", "C", "W">>)
    ELSE IntVal(reply)

NothingCached ==
    /\ result.op = "get"
         => /\ MatchesAll(result.calls, <<Text("values", Query(result.prop))>>)
            /\ result.err = "none" => result.ret = ReadValue(result.prop, result.reply)
    /\ (result.op = "set" /\ result.err # "ValueError")
         => /\ Len(result.calls) = 1
            /\ result.calls[1].via = "write"

Plan(r) ==
    CASE r.op = "get" -> <<Text("values", Query(r.prop))>>
      [] r.op = "set" /\ r.prop \in Numeric ->
            <<Num(Letter(r.prop), Clamped(r.prop, r.value))>>
      [] r.op = "set" /\ r.prop = "direction" ->
            IF ValidDirection(r.direction)
            THEN <<Text("write", Symbol(r.direction))>> ELSE <<>>
      [] r.op = "stop" -> <<Text("write", <<".">>)>>
      [] r.op = "go" -> <<Text("write", <<"G">>)>>
      [] r.op = "step" ->
            <<Num(<<"N">>, Clamp(r.value, 0, 8388607))>>
            \o (IF ValidDirection(r.direction)
                THEN <<Text("write", Symbol(r.direction)), Text("write", <<"G">>)>>
                ELSE <<>>)
      [] r.op = "slew" ->
            IF ValidDirection(r.direction)
            THEN <<Text("write", Symbol(r.direction)), Text("write", <<"S">>)>>
            ELSE <<>>
      [] r.op \in {"write", "values", "ask"} -> <<Text(r.op, r.command)>>
      [] OTHER -> <<>>

C8_AdapterFailurePropagates ==
    /\ result.failAt \in 1..Len(Plan(result))
         => /\ result.err = "AdapterError"
            /\ result.ret = None
            /\ MatchesAll(result.calls, SubSeq(Plan(result), 1, result.failAt))
    /\ result.err = "AdapterError" => Len(result.calls) = result.failAt

C8_Witness ==
    /\ result.op = "step"
    /\ ValidDirection(result.direction)
    /\ result.failAt = 1
    /\ result.err = "AdapterError"
    /\ Len(result.calls) = 1

\* C9: stop hands the adapter exactly one message, ".", and go exactly
\* one message, "G"; neither queries nor sends steps or direction.
C9_StopGo ==
    /\ result.op = "stop" => MatchesAll(result.calls, <<Text("write", <<".">>)>>)
    /\ result.op = "go" => MatchesAll(result.calls, <<Text("write", <<"G">>)>>)

C9_Witness ==
    /\ result.op = "go"
    /\ result.err = "none"
    /\ Len(adapter) = 2
    /\ Body(adapter[1].msg) = <<".">>

====
